---- MODULE Spec2Model ----
(***************************************************************************)
(* Pick-and-place sorter: the mission controller (RobotArmSimulator), the  *)
(* selector (ObjectSelector), the stabilizer (PositionStabilizer) and the  *)
(* run loop and keyboard handler of RobotArmSortingSystem.                 *)
(*                                                                         *)
(* Wall-clock values (start_time, timestamp) are left out of the records:  *)
(* no modelled decision reads them.                                        *)
(***************************************************************************)
EXTENDS Integers, Sequences, FiniteSets, TLC

VARIABLES
    \* RobotArmSimulator
    current_position, is_moving, current_mission, mission_progress,
    mission_steps, batch_mode, batch_queue, pick_history, metrics,
    \* ObjectSelector
    tolerance_radius, selected_object, selection_id,
    \* PositionStabilizer
    position_buffers,
    \* RobotArmSortingSystem.run: position in the loop body, this frame's objects
    pc, objects,
    \* observation only: the stages this iteration of the loop has run so far
    stages,
    \* observation only: the last call with its arguments and return value,
    \* the work (mission or batch) last started, ticks since the mission began
    last, started, ticks

mcvars == <<current_position, is_moving, current_mission, mission_progress,
            mission_steps, batch_mode, batch_queue, pick_history, metrics>>
selvars == <<tolerance_radius, selected_object, selection_id>>
runvars == <<pc, objects, stages>>
vars == <<mcvars, selvars, position_buffers, runvars, last, started, ticks>>

\* Python's None
None == [none |-> TRUE]

\* ------------------------------------------------------------------ bounds
\* longest object list handed to a batch operation
MaxBatch == 3
\* missions completed in one run (caps pick_history and the counters)
MaxPicks == 3

\* ------------------------------------------------------- program constants
FrameWidth == 640
FrameHeight == 480
WorkspaceWidth == 600
WorkspaceHeight == 400
ObjectHeight == 20
ProgressIncrement == 2
ProgressDone == 100
InitialTolerance == 40
ToleranceStep == 5
MinTolerance == 10
MaxTolerance == 100
StepScale == 100
MinArea == 1000

Colors == {"Red", "Green", "Blue"}

drop_locations ==
    [c \in Colors |-> CASE c = "Red"   -> <<100, 350, 50>>
                        [] c = "Green" -> <<300, 350, 50>>
                        [] c = "Blue"  -> <<500, 350, 50>>]

HomePosition == <<300, 200, 100>>

\* color_order.get(color, 3)
color_order(c) ==
    CASE c = "Red" -> 0 [] c = "Green" -> 1 [] c = "Blue" -> 2 [] OTHER -> 3

\* ------------------------------------------------------------- detections
\* ColorDetector.process_contours: the object built for a contour of color c
\* whose bounding-box center is (x, y)
\* mutant: the identity is built from the color alone
MkObj_keyed_by_color(c, x, y) ==
    [pixel_pos |-> <<x, y>>,
     robot_pos |-> <<(x * WorkspaceWidth) \div FrameWidth,
                     (y * WorkspaceHeight) \div FrameHeight,
                     ObjectHeight>>,
     color |-> c,
     id |-> <<c, 0, 0>>]

MkObj(c, x, y) ==
    [pixel_pos |-> <<x, y>>,
     robot_pos |-> <<(x * WorkspaceWidth) \div FrameWidth,
                     (y * WorkspaceHeight) \div FrameHeight,
                     ObjectHeight>>,
     color |-> c,
     id |-> <<c, x, y>>]

\* ---------------------------------------------------------------- helpers
Min(a, b) == IF a < b THEN a ELSE b
Max(a, b) == IF a > b THEN a ELSE b

Range(s) == {s[i] : i \in 1..Len(s)}

\* sequences of distinct elements of S of length at most n
DistinctSeqs(S, n) ==
    {s \in UNION {[1..k -> S] : k \in 0..n} :
        \A i, j \in 1..Len(s) : i < j => s[i] # s[j]}

\* list.sort / sorted on decorated entries [item, key]: a stable sort by key,
\* written as insertion after every entry whose key is not greater
RECURSIVE Insert(_, _)
Insert(s, e) ==
    IF s = <<>> THEN <<e>>
    ELSE IF e.key < s[1].key THEN <<e>> \o s
    ELSE <<s[1]>> \o Insert(Tail(s), e)

RECURSIVE StableSort(_)
StableSort(s) ==
    IF s = <<>> THEN <<>>
    ELSE Insert(StableSort(SubSeq(s, 1, Len(s) - 1)), s[Len(s)])

\* ------------------------------------------------------ RobotArmSimulator
startvars == <<current_mission, mission_steps, is_moving, mission_progress,
               batch_mode, batch_queue>>

calculate_pick_mission(object_pos, object_color) ==
    LET object_x == object_pos[1]
        object_y == object_pos[2]
        object_z == object_pos[3]
        drop_x == drop_locations[object_color][1]
        drop_y == drop_locations[object_color][2]
        drop_z == drop_locations[object_color][3]
    IN << [type |-> "move", target |-> <<object_x, object_y, object_z + 50>>,
           description |-> "Approach object"],
          [type |-> "move", target |-> <<object_x, object_y, object_z>>,
           description |-> "Lower to object"],
          [type |-> "gripper", action |-> "close", description |-> "Pick up object"],
          [type |-> "move", target |-> <<object_x, object_y, object_z + 80>>,
           description |-> "Lift object"],
          [type |-> "move", target |-> <<drop_x, drop_y, object_z + 80>>,
           description |-> "Move above drop zone"],
          [type |-> "move", target |-> <<drop_x, drop_y, drop_z>>,
           description |-> "Lower to drop height"],
          [type |-> "gripper", action |-> "open", description |-> "Release object"],
          [type |-> "move", target |-> <<drop_x, drop_y, drop_z + 80>>,
           description |-> "Lift from drop zone"],
          [type |-> "move", target |-> current_position,
           description |-> "Return to home"] >>

Mission(object_pos, object_color) ==
    [object_pos |-> object_pos, object_color |-> object_color]

\* mutant: the queue is popped at its end
start_next_mission_lifo ==
    LET next_mission == batch_queue[Len(batch_queue)]
    IN /\ batch_queue' = SubSeq(batch_queue, 1, Len(batch_queue) - 1)
       /\ current_mission' = Mission(next_mission.robot_pos, next_mission.color)
       /\ mission_steps' = calculate_pick_mission(next_mission.robot_pos,
                                                  next_mission.color)

\* mutant: the next mission is dequeued under the plan of the one before
start_next_mission_stale_plan ==
    LET next_mission == Head(batch_queue)
    IN /\ batch_queue' = Tail(batch_queue)
       /\ current_mission' = Mission(next_mission.robot_pos, next_mission.color)
       /\ UNCHANGED mission_steps

\* mutant: the next mission is aimed at the first object of the latest frame
start_next_mission_from_frame ==
    LET next_mission == IF objects # <<>> THEN objects[1] ELSE Head(batch_queue)
    IN /\ batch_queue' = Tail(batch_queue)
       /\ current_mission' = Mission(next_mission.robot_pos, next_mission.color)
       /\ mission_steps' = calculate_pick_mission(next_mission.robot_pos,
                                                  next_mission.color)

start_next_mission ==
    LET next_mission == Head(batch_queue)
    IN /\ batch_queue' = Tail(batch_queue)
       /\ current_mission' = Mission(next_mission.robot_pos, next_mission.color)
       /\ mission_steps' = calculate_pick_mission(next_mission.robot_pos,
                                                  next_mission.color)

\* mutant: the entry records where the arm stands as the drop location
HistoryEntry_at_arm(mission) ==
    [color |-> mission.object_color,
     position |-> mission.object_pos,
     drop_location |-> current_position,
     success |-> TRUE]

\* mutant: the entry is recorded as a failure
HistoryEntry_unsuccessful(mission) ==
    [color |-> mission.object_color,
     position |-> mission.object_pos,
     drop_location |-> drop_locations[mission.object_color],
     success |-> FALSE]

HistoryEntry(mission) ==
    [color |-> mission.object_color,
     position |-> mission.object_pos,
     drop_location |-> drop_locations[mission.object_color],
     success |-> TRUE]

\* mutant: every completion in batch mode counts as a batch completion
complete_mission_counting_each ==
    LET counted == [metrics EXCEPT !.successful_picks = @ + 1,
                                   !.total_picks = @ + 1,
                                   !.batch_completions = IF batch_mode THEN @ + 1 ELSE @]
    IN /\ mission_progress' = 0
       /\ pick_history' = Append(pick_history, HistoryEntry(current_mission))
       /\ metrics' = counted
       /\ IF batch_queue # <<>>
          THEN /\ start_next_mission
               /\ UNCHANGED <<is_moving, batch_mode>>
          ELSE /\ current_mission' = None
               /\ is_moving' = FALSE
               /\ batch_mode' = FALSE
               /\ UNCHANGED <<batch_queue, mission_steps>>
       /\ UNCHANGED current_position

\* mutant: a completion is counted as successful but not in the total
complete_mission_uncounted ==
    LET counted == [metrics EXCEPT !.successful_picks = @ + 1]
    IN /\ mission_progress' = 0
       /\ pick_history' = Append(pick_history, HistoryEntry(current_mission))
       /\ IF batch_queue # <<>>
          THEN /\ start_next_mission
               /\ metrics' = counted
               /\ UNCHANGED <<is_moving, batch_mode>>
          ELSE /\ metrics' = IF batch_mode
                             THEN [counted EXCEPT !.batch_completions = @ + 1]
                             ELSE counted
               /\ current_mission' = None
               /\ is_moving' = FALSE
               /\ batch_mode' = FALSE
               /\ UNCHANGED <<batch_queue, mission_steps>>
       /\ UNCHANGED current_position

\* mutant: the batch-mode flag is left set when the last mission completes
complete_mission_keeping_mode ==
    LET counted == [metrics EXCEPT !.successful_picks = @ + 1,
                                   !.total_picks = @ + 1]
    IN /\ mission_progress' = 0
       /\ pick_history' = Append(pick_history, HistoryEntry(current_mission))
       /\ IF batch_queue # <<>>
          THEN /\ start_next_mission
               /\ metrics' = counted
               /\ UNCHANGED <<is_moving, batch_mode>>
          ELSE /\ metrics' = IF batch_mode
                             THEN [counted EXCEPT !.batch_completions = @ + 1]
                             ELSE counted
               /\ current_mission' = None
               /\ is_moving' = FALSE
               /\ UNCHANGED <<batch_queue, mission_steps, batch_mode>>
       /\ UNCHANGED current_position

complete_mission ==
    LET counted == [metrics EXCEPT !.successful_picks = @ + 1,
                                   !.total_picks = @ + 1]
    IN /\ mission_progress' = 0
       /\ pick_history' = Append(pick_history, HistoryEntry(current_mission))
       /\ IF batch_queue # <<>>
          THEN /\ start_next_mission
               /\ metrics' = counted
               /\ UNCHANGED <<is_moving, batch_mode>>
          ELSE /\ metrics' = IF batch_mode
                             THEN [counted EXCEPT !.batch_completions = @ + 1]
                             ELSE counted
               /\ current_mission' = None
               /\ is_moving' = FALSE
               /\ batch_mode' = FALSE
               /\ UNCHANGED <<batch_queue, mission_steps>>
       /\ UNCHANGED current_position

\* mutant: completion needs progress above 100
update_mission_strict ==
    IF is_moving /\ current_mission # None
    THEN IF mission_progress + ProgressIncrement > ProgressDone
         THEN complete_mission
         ELSE /\ mission_progress' = mission_progress + ProgressIncrement
              /\ UNCHANGED <<current_position, is_moving, current_mission,
                             mission_steps, batch_mode, batch_queue,
                             pick_history, metrics>>
    ELSE UNCHANGED mcvars

\* mutant: the progress stops short of 100
update_mission_stalling ==
    IF is_moving /\ current_mission # None
    THEN /\ mission_progress' =
               IF mission_progress + ProgressIncrement >= ProgressDone
               THEN mission_progress
               ELSE mission_progress + ProgressIncrement
         /\ UNCHANGED <<current_position, is_moving, current_mission,
                        mission_steps, batch_mode, batch_queue,
                        pick_history, metrics>>
    ELSE UNCHANGED mcvars

update_mission ==
    IF is_moving /\ current_mission # None
    THEN IF mission_progress + ProgressIncrement >= ProgressDone
         THEN complete_mission
         ELSE /\ mission_progress' = mission_progress + ProgressIncrement
              /\ UNCHANGED <<current_position, is_moving, current_mission,
                             mission_steps, batch_mode, batch_queue,
                             pick_history, metrics>>
    ELSE UNCHANGED mcvars

\* mutant: a mission is started whether or not the arm is moving
start_mission_unguarded(object_pos, object_color) ==
    /\ current_mission' = Mission(object_pos, object_color)
    /\ mission_steps' = calculate_pick_mission(object_pos, object_color)
    /\ is_moving' = TRUE
    /\ mission_progress' = 0

start_mission(object_pos, object_color) ==
    IF ~is_moving
    THEN /\ current_mission' = Mission(object_pos, object_color)
         /\ mission_steps' = calculate_pick_mission(object_pos, object_color)
         /\ is_moving' = TRUE
         /\ mission_progress' = 0
    ELSE UNCHANGED <<current_mission, mission_steps, is_moving, mission_progress>>

\* mutant: the batch is set up without asking whether the arm is moving
start_batch_pick_unguarded(objects_list) ==
    IF objects_list # <<>>
    THEN /\ batch_mode' = TRUE
         /\ batch_queue' = Tail(objects_list)
         /\ start_mission(objects_list[1].robot_pos, objects_list[1].color)
    ELSE UNCHANGED startvars

start_batch_pick(objects_list) ==
    IF ~is_moving /\ objects_list # <<>>
    THEN /\ batch_mode' = TRUE
         /\ batch_queue' = Tail(objects_list)
         /\ start_mission(objects_list[1].robot_pos, objects_list[1].color)
    ELSE UNCHANGED startvars

HasColor(obj, color) == obj.color = color

\* mutant: the objects are batched whatever their color
start_color_batch_pick_unfiltered(objects_by_color, color) ==
    IF objects_by_color # <<>>
    THEN start_batch_pick(objects_by_color)
    ELSE UNCHANGED startvars

start_color_batch_pick(objects_by_color, color) ==
    LET color_objects == SelectSeq(objects_by_color, LAMBDA obj : HasColor(obj, color))
    IN IF color_objects # <<>>
       THEN start_batch_pick(color_objects)
       ELSE UNCHANGED startvars

\* mutant: the objects are batched in the order given
sorted_objects_as_given(all_objects) == all_objects

\* mutant: objects of one color are batched last-given first
sorted_objects_ties_reversed(all_objects) ==
    LET n == Len(all_objects)
        decorated == [i \in 1..n |->
                        [item |-> all_objects[n + 1 - i],
                         key |-> color_order(all_objects[n + 1 - i].color)]]
        ordered == StableSort(decorated)
    IN [i \in 1..Len(ordered) |-> ordered[i].item]

sorted_objects(all_objects) ==
    LET decorated == [i \in 1..Len(all_objects) |->
                        [item |-> all_objects[i],
                         key |-> color_order(all_objects[i].color)]]
        ordered == StableSort(decorated)
    IN [i \in 1..Len(ordered) |-> ordered[i].item]

start_all_objects_batch(all_objects) ==
    IF all_objects # <<>>
    THEN start_batch_pick(sorted_objects(all_objects))
    ELSE UNCHANGED startvars

\* mutant: the share of a step is cut to an integer before the division
get_current_step_integer_share ==
    IF current_mission = None \/ mission_steps = <<>>
    THEN None
    ELSE LET progress_per_step == StepScale \div Len(mission_steps)
             current_step_index == Min(mission_progress \div progress_per_step,
                                       Len(mission_steps) - 1)
         IN mission_steps[current_step_index + 1]

\* int(mission_progress / (100 / len(mission_steps))): the progress is an
\* integer and the quotient is no integer unless the progress is 0, so the
\* floating-point value cut to an integer is that of the exact quotient
get_current_step ==
    IF current_mission = None \/ mission_steps = <<>>
    THEN None
    ELSE LET current_step_index ==
                 Min((mission_progress * Len(mission_steps)) \div StepScale,
                     Len(mission_steps) - 1)
         IN mission_steps[current_step_index + 1]

\* get_performance_metrics without the time fields; the success rate
\* (successful_picks / max(total_picks, 1)) * 100 is kept as the whole number
\* 100 * successful_picks / max(total_picks, 1) cut to an integer
get_performance_metrics ==
    [total_picks |-> metrics.total_picks,
     successful_picks |-> metrics.successful_picks,
     failed_picks |-> metrics.failed_picks,
     batch_completions |-> metrics.batch_completions,
     total_missions |-> Len(pick_history),
     success_rate |-> (metrics.successful_picks * 100) \div Max(metrics.total_picks, 1)]

\* --------------------------------------------------------- ObjectSelector
\* math.sqrt((x1 - x2) ** 2 + (y1 - y2) ** 2) is kept as its square: for integer
\* coordinates and an integer radius, sqrt(d2) <= r exactly when d2 <= r * r,
\* and sqrt(d2) orders as d2 does
Distance2(p, q) == (p[1] - q[1]) * (p[1] - q[1]) + (p[2] - q[2]) * (p[2] - q[2])
WithinRadius(d2, radius) == d2 <= radius * radius

\* the (obj, distance) entries of the objects within tolerance_radius, in
\* detection order
matching_objects(current_objects) ==
    LET measured == [i \in 1..Len(current_objects) |->
                       [item |-> current_objects[i],
                        key |-> Distance2(current_objects[i].pixel_pos,
                                          selected_object.pixel_pos)]]
    IN SelectSeq(measured, LAMBDA e : WithinRadius(e.key, tolerance_radius))

\* mutant: the first object within tolerance is taken, not the closest
update_selection_first_match(current_objects, ret) ==
    IF selected_object = None
    THEN ret = None /\ UNCHANGED <<selected_object, selection_id>>
    ELSE LET matching == matching_objects(current_objects)
         IN IF matching # <<>>
            THEN /\ selected_object' = matching[1].item
                 /\ selection_id' = matching[1].item.id
                 /\ ret = matching[1].item
            ELSE ret = None /\ UNCHANGED <<selected_object, selection_id>>

\* mutant: a selection with no object in range is dropped
update_selection_dropping(current_objects, ret) ==
    IF selected_object = None
    THEN ret = None /\ UNCHANGED <<selected_object, selection_id>>
    ELSE LET matching == matching_objects(current_objects)
         IN IF matching # <<>>
            THEN LET closest_obj == StableSort(matching)[1].item
                 IN /\ selected_object' = closest_obj
                    /\ selection_id' = closest_obj.id
                    /\ ret = closest_obj
            ELSE ret = None /\ selected_object' = None /\ selection_id' = None

\* ret is the value returned
update_selection(current_objects, ret) ==
    IF selected_object = None
    THEN ret = None /\ UNCHANGED <<selected_object, selection_id>>
    ELSE LET matching == matching_objects(current_objects)
         IN IF matching # <<>>
            THEN LET closest_obj == StableSort(matching)[1].item
                 IN /\ selected_object' = closest_obj
                    /\ selection_id' = closest_obj.id
                    /\ ret = closest_obj
            ELSE ret = None /\ UNCHANGED <<selected_object, selection_id>>

select_object(obj) ==
    /\ selected_object' = obj
    /\ selection_id' = obj.id

\* mutant: clearing leaves the selection where it is
clear_selection_keeping == UNCHANGED <<selected_object, selection_id>>

clear_selection ==
    /\ selected_object' = None
    /\ selection_id' = None

is_object_selected == selected_object # None

\* ------------------------------------------------------ PositionStabilizer
BufferSize == 5

\* the integers of s in ascending order
SortedInts(s) ==
    LET ordered == StableSort([i \in 1..Len(s) |-> [item |-> s[i], key |-> s[i]]])
    IN [i \in 1..Len(ordered) |-> ordered[i].item]

\* np.median(...).astype(int) of non-negative integers: the middle value, or
\* the mean of the two middle values cut to an integer
MedianInt(s) ==
    LET v == SortedInts(s)
        n == Len(v)
    IN IF n % 2 = 1 THEN v[(n + 1) \div 2]
       ELSE (v[n \div 2] + v[n \div 2 + 1]) \div 2

\* np.median(buffer, axis=0).astype(int)
MedianPosition(buffer) ==
    << MedianInt([i \in 1..Len(buffer) |-> buffer[i][1]]),
       MedianInt([i \in 1..Len(buffer) |-> buffer[i][2]]) >>

\* deque(maxlen=BufferSize).append
DequeAppend(buffer, position) ==
    IF Len(buffer) = BufferSize
    THEN Append(Tail(buffer), position)
    ELSE Append(buffer, position)

\* mutant: the median is returned one update early
stabilizer_update_early(buffers, obj_id, position) ==
    LET before == IF obj_id \in DOMAIN buffers THEN buffers[obj_id] ELSE <<>>
        after == DequeAppend(before, position)
        buffers1 == [k \in DOMAIN buffers \cup {obj_id} |->
                        IF k = obj_id THEN after ELSE buffers[k]]
    IN [buffers |-> buffers1,
        ret |-> IF Len(after) >= BufferSize - 1 THEN MedianPosition(after) ELSE position]

\* PositionStabilizer.update on the buffers given: the buffers it leaves and
\* the position it returns
stabilizer_update(buffers, obj_id, position) ==
    LET before == IF obj_id \in DOMAIN buffers THEN buffers[obj_id] ELSE <<>>
        after == DequeAppend(before, position)
        buffers1 == [k \in DOMAIN buffers \cup {obj_id} |->
                        IF k = obj_id THEN after ELSE buffers[k]]
    IN [buffers |-> buffers1,
        ret |-> IF Len(after) = BufferSize THEN MedianPosition(after) ELSE position]

\* mutant: cleanup keeps every buffer
stabilizer_cleanup_keeping(buffers, current_ids) == buffers

\* PositionStabilizer.cleanup
stabilizer_cleanup(buffers, current_ids) ==
    [k \in DOMAIN buffers \cap current_ids |-> buffers[k]]

\* ---------------------------------------------------- RobotArmSortingSystem
\* process_frame after detection: every object, in order, gets the position
\* the stabilizer returns; then the buffers of absent identities are dropped
RECURSIVE stabilize_objects(_, _)
stabilize_objects(detected_objects, buffers) ==
    IF detected_objects = <<>>
    THEN [objects |-> <<>>, buffers |-> buffers]
    ELSE LET obj == Head(detected_objects)
             upd == stabilizer_update(buffers, obj.id, obj.pixel_pos)
             rest == stabilize_objects(Tail(detected_objects), upd.buffers)
         IN [objects |-> <<[obj EXCEPT !.pixel_pos = upd.ret]>> \o rest.objects,
             buffers |-> rest.buffers]

process_frame(detected_objects) ==
    LET done == stabilize_objects(detected_objects, position_buffers)
        current_ids == {detected_objects[i].id : i \in 1..Len(detected_objects)}
    IN /\ objects' = done.objects
       /\ position_buffers' = stabilizer_cleanup(done.buffers, current_ids)

\* the keys cv2.waitKey delivers; "none" is no key pressed
DigitKeys == {"1", "2", "3", "4", "5", "6"}
ColorKeys == {"r", "g", "b"}
PickKeys == {" ", "f"} \cup ColorKeys
Keys == {"q", "c", "+", "-", "none"} \cup PickKeys \cup DigitKeys

color_map(key) == CASE key = "r" -> "Red" [] key = "g" -> "Green" [] key = "b" -> "Blue"

\* int(chr(key))
DigitValue(key) ==
    CASE key = "1" -> 1 [] key = "2" -> 2 [] key = "3" -> 3
      [] key = "4" -> 4 [] key = "5" -> 5 [] key = "6" -> 6

\* what the handler can write; ret is the value returned
keyvars == <<startvars, selvars>>

\* mutant: a digit beyond the list drops the selection
handle_keyboard_input_digit_clearing(key, objs, ret) ==
    IF key = "q"
    THEN ret = FALSE /\ UNCHANGED keyvars
    ELSE
    /\ ret = TRUE
    /\ IF key = "c"
       THEN clear_selection /\ UNCHANGED <<startvars, tolerance_radius>>
       ELSE IF key = "+"
       THEN /\ tolerance_radius' = Min(MaxTolerance, tolerance_radius + ToleranceStep)
            /\ UNCHANGED <<startvars, selected_object, selection_id>>
       ELSE IF key = "-"
       THEN /\ tolerance_radius' = Max(MinTolerance, tolerance_radius - ToleranceStep)
            /\ UNCHANGED <<startvars, selected_object, selection_id>>
       ELSE IF key = " " /\ ~is_moving
       THEN IF is_object_selected
            THEN /\ start_mission(selected_object.robot_pos, selected_object.color)
                 /\ clear_selection
                 /\ UNCHANGED <<batch_mode, batch_queue, tolerance_radius>>
            ELSE UNCHANGED keyvars
       ELSE IF key = "f" /\ ~is_moving
       THEN /\ start_all_objects_batch(objs)
            /\ clear_selection
            /\ UNCHANGED tolerance_radius
       ELSE IF key \in ColorKeys /\ ~is_moving
       THEN /\ start_color_batch_pick(objs, color_map(key))
            /\ clear_selection
            /\ UNCHANGED tolerance_radius
       ELSE IF key \in DigitKeys /\ ~is_moving
       THEN LET obj_index == DigitValue(key) - 1
            IN IF obj_index < Len(objs)
               THEN /\ select_object(objs[obj_index + 1])
                    /\ UNCHANGED <<startvars, tolerance_radius>>
               ELSE clear_selection /\ UNCHANGED <<startvars, tolerance_radius>>
       ELSE UNCHANGED keyvars

\* mutant: the + key stops one step above the largest radius
handle_keyboard_input_wide(key, objs, ret) ==
    IF key = "q"
    THEN ret = FALSE /\ UNCHANGED keyvars
    ELSE
    /\ ret = TRUE
    /\ IF key = "c"
       THEN clear_selection /\ UNCHANGED <<startvars, tolerance_radius>>
       ELSE IF key = "+"
       THEN /\ tolerance_radius' = Min(MaxTolerance + ToleranceStep,
                                       tolerance_radius + ToleranceStep)
            /\ UNCHANGED <<startvars, selected_object, selection_id>>
       ELSE IF key = "-"
       THEN /\ tolerance_radius' = Max(MinTolerance, tolerance_radius - ToleranceStep)
            /\ UNCHANGED <<startvars, selected_object, selection_id>>
       ELSE IF key = " " /\ ~is_moving
       THEN IF is_object_selected
            THEN /\ start_mission(selected_object.robot_pos, selected_object.color)
                 /\ clear_selection
                 /\ UNCHANGED <<batch_mode, batch_queue, tolerance_radius>>
            ELSE UNCHANGED keyvars
       ELSE IF key = "f" /\ ~is_moving
       THEN /\ start_all_objects_batch(objs)
            /\ clear_selection
            /\ UNCHANGED tolerance_radius
       ELSE IF key \in ColorKeys /\ ~is_moving
       THEN /\ start_color_batch_pick(objs, color_map(key))
            /\ clear_selection
            /\ UNCHANGED tolerance_radius
       ELSE IF key \in DigitKeys /\ ~is_moving
       THEN LET obj_index == DigitValue(key) - 1
            IN IF obj_index < Len(objs)
               THEN /\ select_object(objs[obj_index + 1])
                    /\ UNCHANGED <<startvars, tolerance_radius>>
               ELSE UNCHANGED keyvars
       ELSE UNCHANGED keyvars

\* mutant: the batch keys clear the selection only when they start a batch
handle_keyboard_input_clear_on_start(key, objs, ret) ==
    IF key = "q"
    THEN ret = FALSE /\ UNCHANGED keyvars
    ELSE
    /\ ret = TRUE
    /\ IF key = "c"
       THEN clear_selection /\ UNCHANGED <<startvars, tolerance_radius>>
       ELSE IF key = "+"
       THEN /\ tolerance_radius' = Min(MaxTolerance, tolerance_radius + ToleranceStep)
            /\ UNCHANGED <<startvars, selected_object, selection_id>>
       ELSE IF key = "-"
       THEN /\ tolerance_radius' = Max(MinTolerance, tolerance_radius - ToleranceStep)
            /\ UNCHANGED <<startvars, selected_object, selection_id>>
       ELSE IF key = " " /\ ~is_moving
       THEN IF is_object_selected
            THEN /\ start_mission(selected_object.robot_pos, selected_object.color)
                 /\ clear_selection
                 /\ UNCHANGED <<batch_mode, batch_queue, tolerance_radius>>
            ELSE UNCHANGED keyvars
       ELSE IF key = "f" /\ ~is_moving
       THEN /\ start_all_objects_batch(objs)
            /\ IF objs # <<>>
               THEN clear_selection
               ELSE UNCHANGED <<selected_object, selection_id>>
            /\ UNCHANGED tolerance_radius
       ELSE IF key \in ColorKeys /\ ~is_moving
       THEN /\ start_color_batch_pick(objs, color_map(key))
            /\ IF SelectSeq(objs, LAMBDA obj : HasColor(obj, color_map(key))) # <<>>
               THEN clear_selection
               ELSE UNCHANGED <<selected_object, selection_id>>
            /\ UNCHANGED tolerance_radius
       ELSE IF key \in DigitKeys /\ ~is_moving
       THEN LET obj_index == DigitValue(key) - 1
            IN IF obj_index < Len(objs)
               THEN /\ select_object(objs[obj_index + 1])
                    /\ UNCHANGED <<startvars, tolerance_radius>>
               ELSE UNCHANGED keyvars
       ELSE UNCHANGED keyvars

\* mutant: the f key is served without asking whether the arm is moving
handle_keyboard_input_f_unguarded(key, objs, ret) ==
    IF key = "q"
    THEN ret = FALSE /\ UNCHANGED keyvars
    ELSE
    /\ ret = TRUE
    /\ IF key = "c"
       THEN clear_selection /\ UNCHANGED <<startvars, tolerance_radius>>
       ELSE IF key = "+"
       THEN /\ tolerance_radius' = Min(MaxTolerance, tolerance_radius + ToleranceStep)
            /\ UNCHANGED <<startvars, selected_object, selection_id>>
       ELSE IF key = "-"
       THEN /\ tolerance_radius' = Max(MinTolerance, tolerance_radius - ToleranceStep)
            /\ UNCHANGED <<startvars, selected_object, selection_id>>
       ELSE IF key = " " /\ ~is_moving
       THEN IF is_object_selected
            THEN /\ start_mission(selected_object.robot_pos, selected_object.color)
                 /\ clear_selection
                 /\ UNCHANGED <<batch_mode, batch_queue, tolerance_radius>>
            ELSE UNCHANGED keyvars
       ELSE IF key = "f"
       THEN /\ start_all_objects_batch(objs)
            /\ clear_selection
            /\ UNCHANGED tolerance_radius
       ELSE IF key \in ColorKeys /\ ~is_moving
       THEN /\ start_color_batch_pick(objs, color_map(key))
            /\ clear_selection
            /\ UNCHANGED tolerance_radius
       ELSE IF key \in DigitKeys /\ ~is_moving
       THEN LET obj_index == DigitValue(key) - 1
            IN IF obj_index < Len(objs)
               THEN /\ select_object(objs[obj_index + 1])
                    /\ UNCHANGED <<startvars, tolerance_radius>>
               ELSE UNCHANGED keyvars
       ELSE UNCHANGED keyvars

handle_keyboard_input(key, objs, ret) ==
    IF key = "q"
    THEN ret = FALSE /\ UNCHANGED keyvars
    ELSE
    /\ ret = TRUE
    /\ IF key = "c"
       THEN clear_selection /\ UNCHANGED <<startvars, tolerance_radius>>
       ELSE IF key = "+"
       THEN /\ tolerance_radius' = Min(MaxTolerance, tolerance_radius + ToleranceStep)
            /\ UNCHANGED <<startvars, selected_object, selection_id>>
       ELSE IF key = "-"
       THEN /\ tolerance_radius' = Max(MinTolerance, tolerance_radius - ToleranceStep)
            /\ UNCHANGED <<startvars, selected_object, selection_id>>
       ELSE IF key = " " /\ ~is_moving
       THEN IF is_object_selected
            THEN /\ start_mission(selected_object.robot_pos, selected_object.color)
                 /\ clear_selection
                 /\ UNCHANGED <<batch_mode, batch_queue, tolerance_radius>>
            ELSE UNCHANGED keyvars
       ELSE IF key = "f" /\ ~is_moving
       THEN /\ start_all_objects_batch(objs)
            /\ clear_selection
            /\ UNCHANGED tolerance_radius
       ELSE IF key \in ColorKeys /\ ~is_moving
       THEN /\ start_color_batch_pick(objs, color_map(key))
            /\ clear_selection
            /\ UNCHANGED tolerance_radius
       ELSE IF key \in DigitKeys /\ ~is_moving
       THEN LET obj_index == DigitValue(key) - 1
            IN IF obj_index < Len(objs)
               THEN /\ select_object(objs[obj_index + 1])
                    /\ UNCHANGED <<startvars, tolerance_radius>>
               ELSE UNCHANGED keyvars
       ELSE UNCHANGED keyvars

\* ----------------------------------------------------------- observation
\* what a call leaves in the observation variables.  last: the call (the name
\* and arguments of a start call are kept only when it found the controller
\* idle; one that found it moving is kept as its kind alone), the selection it found and the
\* value it returned.  started: the work that took the
\* controller from idle to moving.  ticks: the ticks the current mission has
\* received, or, when idle, those the last mission had received at its end.
Observe(kind, op, arg, ret) ==
    /\ last' = [kind |-> kind,
                op |-> IF is_moving /\ kind = "start" THEN "-" ELSE op,
                arg |-> IF is_moving /\ kind = "start" THEN <<>> ELSE arg,
                moving |-> is_moving,
                prev |-> <<selected_object, selection_id>>,
                ret |-> ret]
    /\ started' = IF ~is_moving /\ is_moving'
                  THEN [op |-> op, arg |-> arg, hist0 |-> Len(pick_history),
                        bc0 |-> metrics.batch_completions]
                  ELSE started
    /\ ticks' = IF ~is_moving /\ is_moving' THEN 0
                ELSE IF kind = "tick" /\ is_moving
                     THEN IF is_moving' /\ Len(pick_history') # Len(pick_history)
                          THEN 0
                          ELSE ticks + 1
                     ELSE ticks

\* ------------------------------------------------ the controller on its own
McObjs == {MkObj("Red", 100, 100), MkObj("Red", 200, 100),
           MkObj("Green", 120, 100), MkObj("Blue", 200, 300)}
McLists == DistinctSeqs(McObjs, MaxBatch)

notmc == <<selvars, position_buffers, runvars>>

CallStartMission(obj) ==
    /\ start_mission(obj.robot_pos, obj.color)
    /\ UNCHANGED <<batch_mode, batch_queue, current_position, pick_history, metrics>>
    /\ Observe("start", "start_mission", <<obj>>, None)
    /\ UNCHANGED notmc

CallStartBatch(objects_list) ==
    /\ start_batch_pick(objects_list)
    /\ UNCHANGED <<current_position, pick_history, metrics>>
    /\ Observe("start", "start_batch_pick", objects_list, None)
    /\ UNCHANGED notmc

CallStartColorBatch(objects_list, color) ==
    /\ start_color_batch_pick(objects_list, color)
    /\ UNCHANGED <<current_position, pick_history, metrics>>
    /\ Observe("start", "start_color_batch_pick", <<objects_list, color>>, None)
    /\ UNCHANGED notmc

CallStartAllBatch(objects_list) ==
    /\ start_all_objects_batch(objects_list)
    /\ UNCHANGED <<current_position, pick_history, metrics>>
    /\ Observe("start", "start_all_objects_batch", objects_list, None)
    /\ UNCHANGED notmc

Tick ==
    /\ update_mission
    /\ Observe("tick", "update_mission", <<>>, None)
    /\ UNCHANGED notmc

InitMC ==
    /\ current_position = HomePosition
    /\ is_moving = FALSE
    /\ current_mission = None
    /\ mission_progress = 0
    /\ mission_steps = <<>>
    /\ batch_mode = FALSE
    /\ batch_queue = <<>>
    /\ pick_history = <<>>
    /\ metrics = [total_picks |-> 0, successful_picks |-> 0, failed_picks |-> 0,
                  average_pick_time |-> 0, batch_completions |-> 0]

InitSelector ==
    /\ tolerance_radius = InitialTolerance
    /\ selected_object = None
    /\ selection_id = None

InitRun ==
    /\ pc = "read"
    /\ objects = <<>>
    /\ stages = <<>>

InitObservation ==
    /\ last = [kind |-> "init", op |-> "-", arg |-> <<>>, moving |-> FALSE,
               prev |-> <<None, None>>, ret |-> None]
    /\ started = [op |-> "none", arg |-> <<>>, hist0 |-> 0, bc0 |-> 0]
    /\ ticks = 0

Init ==
    /\ InitMC
    /\ InitSelector
    /\ position_buffers = <<>>
    /\ InitRun
    /\ InitObservation

\* SpecMC: the start operations are called while idle, as the keyboard handler
\* calls them, as long as the missions they start fit under MaxPicks
Fits(n) == ~is_moving /\ Len(pick_history) + n <= MaxPicks

StartMission == \E obj \in McObjs : Fits(1) /\ CallStartMission(obj)
StartBatch == \E l \in McLists : Fits(Len(l)) /\ CallStartBatch(l)
StartAllBatch == \E l \in McLists : Fits(Len(l)) /\ CallStartAllBatch(l)

NextMC == StartMission \/ StartBatch \/ StartAllBatch \/ Tick

SpecMC == Init /\ [][NextMC]_vars

\* SpecBusy: every start operation is called in every state, moving or idle,
\* with every argument; from idle, while the missions fit under BusyPicks
BusyPicks == 2
BusyObjs == {MkObj("Red", 100, 100), MkObj("Green", 120, 100), MkObj("Blue", 200, 300)}
BusyLists == DistinctSeqs(BusyObjs, MaxBatch)
BusyFits(n) == is_moving \/ Len(pick_history) + n <= BusyPicks

BusyStartMission == \E obj \in BusyObjs : BusyFits(1) /\ CallStartMission(obj)
BusyStartBatch == \E l \in BusyLists : BusyFits(Len(l)) /\ CallStartBatch(l)
BusyStartColorBatch ==
    \E l \in BusyLists, color \in Colors : BusyFits(Len(l)) /\ CallStartColorBatch(l, color)
BusyStartAllBatch == \E l \in BusyLists : BusyFits(Len(l)) /\ CallStartAllBatch(l)

NextBusy ==
    \/ BusyStartMission
    \/ BusyStartBatch
    \/ BusyStartColorBatch
    \/ BusyStartAllBatch
    \/ Tick

SpecBusy == Init /\ [][NextBusy]_vars

\* -------------------------------------------------- the selector on its own
\* most objects in one detection list
MaxDet == 3
\* the radii the +/- keys reach from 40
Tolerances == {r \in MinTolerance..MaxTolerance : r % ToleranceStep = 0}
\* of these, the radii at and just under the distances between the objects below
SelTolerances == Tolerances \cap {20, 35, 40, 100}

\* from (100,100): two objects at distance 20 on either side, one at distance 40
\* off the axis (24, 32, 40), one at distance 100
SelObjs == {MkObj("Red", 100, 100), MkObj("Green", 120, 100), MkObj("Blue", 80, 100),
            MkObj("Green", 124, 132), MkObj("Red", 200, 100)}
SelLists == DistinctSeqs(SelObjs, MaxDet)

notsel == <<mcvars, position_buffers, runvars>>

CallSelect ==
    \E obj \in SelObjs :
        /\ select_object(obj)
        /\ UNCHANGED <<tolerance_radius, notsel>>
        /\ Observe("select_object", "select_object", <<obj>>, obj)

CallClear ==
    /\ clear_selection
    /\ UNCHANGED <<tolerance_radius, notsel>>
    /\ Observe("clear_selection", "clear_selection", <<>>, None)

CallUpdateSelection ==
    \E l \in SelLists : \E ret \in {None} \cup Range(l) :
        /\ update_selection(l, ret)
        /\ UNCHANGED <<tolerance_radius, notsel>>
        /\ Observe("update_selection", "update_selection", l, ret)

InitSel ==
    /\ InitMC
    /\ tolerance_radius \in SelTolerances
    /\ selected_object = None
    /\ selection_id = None
    /\ position_buffers = <<>>
    /\ InitRun
    /\ InitObservation

NextSel == CallSelect \/ CallClear \/ CallUpdateSelection

SpecSel == InitSel /\ [][NextSel]_vars

\* ------------------------------------------------------------ the run loop
\* most objects in one frame
MaxFrame == 2
\* missions completed in one run of the loop
RunPicks == 2

\* the order in which detect_objects goes through the colors
detection_order(c) == CASE c = "Red" -> 0 [] c = "Green" -> 1 [] c = "Blue" -> 2

RunObjs == {MkObj("Red", 100, 100), MkObj("Green", 120, 100)}
\* what detect_objects can return: the objects color by color
RunFrames ==
    {l \in DistinctSeqs(RunObjs, MaxFrame) :
        \A i, j \in 1..Len(l) :
            i < j => detection_order(l[i].color) <= detection_order(l[j].color)}

\* the statements of the loop body, in the order the loop runs them
RunOrderSelectionFirst == <<"read", "stabilize", "selection", "mission", "input">>
RunOrder == <<"read", "stabilize", "mission", "selection", "input">>

Place(stage) == CHOOSE i \in 1..Len(RunOrder) : RunOrder[i] = stage
AfterStage(stage) ==
    IF Place(stage) = Len(RunOrder) THEN RunOrder[1] ELSE RunOrder[Place(stage) + 1]

\* cap.read() and detect_objects: a frame and its detections, or no frame
ReadFrame ==
    /\ pc = "read"
    /\ \/ \E l \in RunFrames :
            /\ objects' = l
            /\ pc' = AfterStage("read")
            /\ stages' = <<"segmentation">>
       \/ /\ pc' = "done"
          /\ UNCHANGED <<objects, stages>>
    /\ UNCHANGED <<mcvars, selvars, position_buffers>>
    /\ Observe("read", "read", <<>>, None)

Stabilize ==
    /\ pc = "stabilize"
    /\ process_frame(objects)
    /\ pc' = AfterStage("stabilize")
    /\ stages' = Append(stages, "stabilization")
    /\ UNCHANGED <<mcvars, selvars>>
    /\ Observe("stabilize", "process_frame", <<>>, None)

AdvanceMission ==
    /\ pc = "mission"
    /\ update_mission
    /\ pc' = AfterStage("mission")
    /\ stages' = Append(stages, "mission")
    /\ UNCHANGED <<selvars, position_buffers, objects>>
    /\ Observe("tick", "update_mission", <<>>, None)

UpdateSelection ==
    /\ pc = "selection"
    /\ \E ret \in {None} \cup Range(objects) :
          /\ IF is_moving
             THEN clear_selection /\ ret = None
             ELSE update_selection(objects, ret)
          /\ pc' = AfterStage("selection")
          /\ stages' = Append(stages, "selection")
          /\ UNCHANGED <<mcvars, tolerance_radius, position_buffers, objects>>
          /\ Observe("selection", "update_selection", <<>>, ret)

\* the missions a key would start
Wanted(key) ==
    CASE key = " " -> 1
      [] key = "f" -> Len(objects)
      [] key \in ColorKeys ->
            Len(SelectSeq(objects, LAMBDA obj : HasColor(obj, color_map(key))))
      [] OTHER -> 0

\* a key pressed while moving is kept as a key press alone
KeyKind(key) == IF is_moving THEN "-" ELSE key

\* the keys of the run loop: the tolerance keys change no stage and no mission
RunKeys == Keys \ {"+", "-"}

HandleInput ==
    /\ pc = "input"
    /\ \E key \in RunKeys, ret \in BOOLEAN :
          /\ is_moving \/ Len(pick_history) + Wanted(key) <= RunPicks
          /\ handle_keyboard_input(key, objects, ret)
          /\ pc' = IF ret THEN AfterStage("input") ELSE "done"
          /\ stages' = Append(stages, "input")
          /\ UNCHANGED <<current_position, pick_history, metrics,
                         position_buffers, objects>>
          /\ Observe("key", KeyKind(key), <<>>, ret)

Next == ReadFrame \/ Stabilize \/ AdvanceMission \/ UpdateSelection \/ HandleInput

Spec == Init /\ [][Next]_vars

\* ------------------------------------------ the key handler on its own
\* SpecPick: handle_keyboard_input is called with any key but the tolerance
\* keys and any object list, between calls of the components it drives
PickLists == DistinctSeqs(RunObjs, MaxFrame)
\* a mission or batch is started only while fewer missions than this are done
PickPicks == 1

\* the digit keys that can name an object of such a list, and one that cannot
PickDigits == {"1", "2", "6"}
PickKeySet == RunKeys \ (DigitKeys \ PickDigits)

\* what is kept of the key: whether it was a pick key that came while moving
PickKind(key) == IF is_moving /\ key \in PickKeys THEN "pick" ELSE "-"

PickKey ==
    \E key \in PickKeySet, l \in PickLists, ret \in BOOLEAN :
        /\ is_moving \/ Len(pick_history) < PickPicks
        /\ handle_keyboard_input(key, l, ret)
        /\ UNCHANGED <<current_position, pick_history, metrics, position_buffers, runvars>>
        /\ Observe("key", PickKind(key), <<>>, ret)

PickStartMission ==
    \E obj \in RunObjs :
        /\ is_moving \/ Len(pick_history) < PickPicks
        /\ CallStartMission(obj)

PickSelect ==
    \E obj \in RunObjs :
        /\ select_object(obj)
        /\ UNCHANGED <<tolerance_radius, notsel>>
        /\ Observe("select_object", "select_object", <<obj>>, obj)

NextPick == PickKey \/ PickStartMission \/ PickSelect \/ Tick

SpecPick == Init /\ [][NextPick]_vars

\* --------------------------------- the key handler with every kind of key
\* SpecKeys: between ticks, handle_keyboard_input is called with any key and
\* any object list, the selection is updated as the loop updates it, and the
\* start operations are called while a mission executes
\* a mission or batch is started only while the missions fit under this
KeysPicks == 1
KeysLists == DistinctSeqs(RunObjs, MaxFrame)
KeysKeySet == Keys \ (DigitKeys \ PickDigits)

\* the keys whose branch reads the object list; the others get the empty list
ListKeys == {"f"} \cup ColorKeys \cup DigitKeys
KeyLists(key) == IF key \in ListKeys THEN KeysLists ELSE {<<>>}

\* the missions a key would start on the list given
KeysWanted(key, l) ==
    CASE key = " " -> 1
      [] key = "f" -> Len(l)
      [] key \in ColorKeys -> Len(SelectSeq(l, LAMBDA obj : HasColor(obj, color_map(key))))
      [] OTHER -> 0

\* whether a tolerance key would keep the radius within one step of 40
WithinReach(key) ==
    /\ key = "+" => tolerance_radius < InitialTolerance + ToleranceStep
    /\ key = "-" => tolerance_radius > InitialTolerance - ToleranceStep

\* what is kept of the key: a digit key with the list it indexed, a tolerance
\* key with the radius it found
KeysKind(key) == IF key \in DigitKeys \cup {"+", "-"} THEN key ELSE "other"
KeysArg(key, l) ==
    IF key \in DigitKeys THEN l
    ELSE IF key \in {"+", "-"} THEN <<tolerance_radius>>
    ELSE <<>>

KeysKey ==
    \E key \in KeysKeySet : \E l \in KeyLists(key), ret \in BOOLEAN :
        /\ is_moving \/ Len(pick_history) + KeysWanted(key, l) <= KeysPicks
        /\ WithinReach(key)
        /\ handle_keyboard_input(key, l, ret)
        /\ UNCHANGED <<current_position, pick_history, metrics, position_buffers, runvars>>
        /\ Observe("key", KeysKind(key), KeysArg(key, l), ret)

\* the selection update of one iteration of the loop
KeysFrame ==
    \E l \in KeysLists : \E ret \in {None} \cup Range(l) :
        /\ IF is_moving
           THEN clear_selection /\ ret = None
           ELSE update_selection(l, ret)
        /\ UNCHANGED <<tolerance_radius, notsel>>
        /\ Observe("selection", "update_selection", <<>>, ret)

KeysStartMission == \E obj \in RunObjs : is_moving /\ CallStartMission(obj)
KeysStartBatch == \E l \in KeysLists : is_moving /\ CallStartBatch(l)
KeysStartColorBatch ==
    \E l \in KeysLists, color \in Colors : is_moving /\ CallStartColorBatch(l, color)
KeysStartAllBatch == \E l \in KeysLists : is_moving /\ CallStartAllBatch(l)

NextKeys ==
    \/ KeysKey
    \/ KeysFrame
    \/ KeysStartMission
    \/ KeysStartBatch
    \/ KeysStartColorBatch
    \/ KeysStartAllBatch
    \/ Tick

SpecKeys == Init /\ [][NextKeys]_vars

\* ------------------------------------------------- the tolerance keys
\* SpecTol: the tolerance keys take the radius as far as they can, between
\* ticks, selection updates and the keys that select, clear and pick one object
TolPicks == 1
TolKeySet == {"+", "-", "c", " ", "1", "2", "q", "none"}

TolKey ==
    \E key \in TolKeySet : \E l \in KeyLists(key), ret \in BOOLEAN :
        /\ is_moving \/ Len(pick_history) + KeysWanted(key, l) <= TolPicks
        /\ handle_keyboard_input(key, l, ret)
        /\ UNCHANGED <<current_position, pick_history, metrics, position_buffers, runvars>>
        /\ Observe("key", KeysKind(key), KeysArg(key, l), ret)

NextTol == TolKey \/ KeysFrame \/ Tick

SpecTol == Init /\ [][NextTol]_vars

\* ------------------------------------------------ the stabilizer on its own
\* SpecStab: update, cleanup and process_frame are called in any order; the
\* first identity is fed three positions whose coordinate-wise median is none
\* of them, the second its own position only
StabObjs == RunObjs
StabIds == {obj.id : obj \in StabObjs}
StabPositions(obj_id) ==
    IF obj_id = MkObj("Red", 100, 100).id
    THEN {<<100, 100>>, <<200, 300>>, <<300, 200>>}
    ELSE {<<obj_id[2], obj_id[3]>>}

StabUpdate ==
    \E obj_id \in StabIds : \E position \in StabPositions(obj_id) :
        LET upd == stabilizer_update(position_buffers, obj_id, position)
        IN /\ position_buffers' = upd.buffers
           /\ UNCHANGED <<mcvars, selvars, runvars>>
           /\ Observe("update", "update", <<obj_id, position>>, upd.ret)

\* kept of a cleanup: the identities given and those that had a buffer
StabCleanup ==
    \E current_ids \in SUBSET StabIds :
        /\ position_buffers' = stabilizer_cleanup(position_buffers, current_ids)
        /\ UNCHANGED <<mcvars, selvars, runvars>>
        /\ Observe("cleanup", "cleanup", <<current_ids, DOMAIN position_buffers>>, None)

\* kept of a frame: its detections and the identities that had a buffer
StabFrame ==
    \E l \in RunFrames :
        /\ process_frame(l)
        /\ UNCHANGED <<mcvars, selvars, pc, stages>>
        /\ Observe("frame", "process_frame", <<l, DOMAIN position_buffers>>, None)

NextStab == StabUpdate \/ StabCleanup \/ StabFrame

SpecStab == Init /\ [][NextStab]_vars

\* ------------------------------------------------- batches of one color
\* SpecColor: start_color_batch_pick is called while idle with any list and
\* any color, as long as the missions it starts fit under ColorPicks; two of
\* the objects are Red and none is Blue
ColorPicks == 2
ColorObjs == {MkObj("Red", 100, 100), MkObj("Red", 200, 100), MkObj("Green", 120, 100)}
ColorLists == DistinctSeqs(ColorObjs, MaxBatch)

ColorStart ==
    \E l \in ColorLists, color \in Colors :
        /\ ~is_moving
        /\ Len(pick_history) + Len(SelectSeq(l, LAMBDA obj : HasColor(obj, color)))
              <= ColorPicks
        /\ CallStartColorBatch(l, color)

NextColor == ColorStart \/ Tick

SpecColor == Init /\ [][NextColor]_vars

\* ----------------------------------------------------------- ColorDetector
\* a contour of a color's mask is kept as its area, the area of its convex
\* hull and the center of its bounding box

\* solidity > 0.7, with solidity = float(area) / hull_area if hull_area > 0
\* else 0: for whole areas the quotient exceeds 0.7 exactly when 10 * area
\* exceeds 7 * hull_area
solidity_accepts(area, hull_area) ==
    IF hull_area > 0 THEN 10 * area > 7 * hull_area ELSE FALSE

find_contours(contours, min_area) ==
    SelectSeq(contours,
              LAMBDA cnt : cnt.area > min_area /\ solidity_accepts(cnt.area, cnt.hull_area))

process_contours(contours, color_name) ==
    [i \in 1..Len(contours) |->
        MkObj(color_name, contours[i].center[1], contours[i].center[2])]

\* detect_objects on the contours found in the masks: color by color in the
\* order of hsv_ranges, the contours of a color in the order found
detect_objects(found, min_area) ==
    LET of_color(c) == SelectSeq(found, LAMBDA cnt : cnt.color = c)
        detected(c) == process_contours(find_contours(of_color(c), min_area), c)
    IN detected("Red") \o detected("Green") \o detected("Blue")

\* SpecSeg: detect_objects is called on frames of up to MaxContours contours
MaxContours == 2

\* areas at, just under and just over min_area, with hulls that put the
\* solidity at 1, at 0.7, just over and just under it; and an empty contour
SegShapes == {<<0, 0>>, <<999, 999>>, <<1000, 1000>>, <<1001, 1001>>,
              <<1001, 1430>>, <<1001, 1429>>, <<2000, 2858>>}
SegContours ==
    {[color |-> obj.color, center |-> obj.pixel_pos, area |-> sh[1], hull_area |-> sh[2]] :
        obj \in RunObjs, sh \in SegShapes}
SegFrames == DistinctSeqs(SegContours, MaxContours)

SegDetect ==
    \E found \in SegFrames :
        /\ objects' = detect_objects(found, MinArea)
        /\ UNCHANGED <<mcvars, selvars, position_buffers, pc, stages>>
        /\ Observe("detect", "detect_objects", found, None)

NextSeg == SegDetect

SpecSeg == Init /\ [][NextSeg]_vars

\* ------------------------------------------------ ticks that keep coming
\* SpecLive: start_mission and start_batch_pick are called in any state, and
\* the loop never stops calling update_mission
NextLive == BusyStartMission \/ BusyStartBatch \/ Tick

SpecLive == Init /\ [][NextLive]_vars /\ WF_vars(Tick)

\* ------------------------------------------- frames through process_frame
\* SpecPipe: process_frame is called on frame after frame; a Red object is
\* seen at one center or one pixel to its right, a Green object stays put
PipeObjs == {MkObj("Red", 100, 100), MkObj("Red", 101, 100), MkObj("Green", 120, 100)}
PipeFrames ==
    {l \in DistinctSeqs(PipeObjs, MaxFrame) :
        \A i, j \in 1..Len(l) :
            i < j => detection_order(l[i].color) <= detection_order(l[j].color)}

PipeFrame ==
    \E l \in PipeFrames :
        /\ process_frame(l)
        /\ UNCHANGED <<mcvars, selvars, pc, stages>>
        /\ Observe("frame", "process_frame", <<l, DOMAIN position_buffers>>, None)

NextPipe == PipeFrame

SpecPipe == Init /\ [][NextPipe]_vars

\* -------------------------------------------- pick keys and the selection
\* SpecUnselect: between ticks, handle_keyboard_input is called with the pick
\* keys, the keys that select and clear, and no key, on any object list; the
\* key is kept as pressed, with the number of objects it came with
UnselectKeySet == PickKeys \cup {"1", "2", "c", "none"}

UnselectKey ==
    \E key \in UnselectKeySet : \E l \in KeyLists(key), ret \in BOOLEAN :
        /\ is_moving \/ Len(pick_history) + KeysWanted(key, l) <= KeysPicks
        /\ handle_keyboard_input(key, l, ret)
        /\ UNCHANGED <<current_position, pick_history, metrics, position_buffers, runvars>>
        /\ Observe("key", key, <<Len(l)>>, ret)

NextUnselect == UnselectKey \/ Tick

SpecUnselect == Init /\ [][NextUnselect]_vars

\* ------------------------------------------------- reading the observation
\* the (position, color) pairs of the work last started: the missions completed
\* since it began, then the current mission, then the queued items
Completed == SubSeq(pick_history, started.hist0 + 1, Len(pick_history))
Done == Len(pick_history) - started.hist0
Ran ==
    [i \in 1..Len(Completed) |-> <<Completed[i].position, Completed[i].color>>]
    \o (IF current_mission = None THEN <<>>
        ELSE << <<current_mission.object_pos, current_mission.object_color>> >>)
    \o [i \in 1..Len(batch_queue) |-> <<batch_queue[i].robot_pos, batch_queue[i].color>>]
Given(l) == [i \in 1..Len(l) |-> <<l[i].robot_pos, l[i].color>>]

\* ---------------------------------------------------------------- claims
\* C1: while a mission is executing, a call of start_mission, start_batch_pick,
\* start_color_batch_pick or start_all_objects_batch, whatever its arguments,
\* changes nothing of the controller: mission, progress, step plan, batch queue,
\* batch-mode flag, history and metrics stay as they were.
C1_StartWhileExecutingIsNoOp ==
    [][(is_moving /\ last'.kind = "start") => UNCHANGED mcvars]_vars

\* a start call found the controller in the middle of a batch and left it there
C1_Witness ==
    /\ last.kind = "start"
    /\ last.moving
    /\ is_moving
    /\ mission_progress > 0
    /\ batch_queue # <<>>

\* C2: from idle, start_mission makes the controller execute a 9-step plan at
\* progress 0; every tick adds 2; the mission is still running after each of
\* the first 49 ticks; the 50th tick completes it, appending one history entry
\* and (nothing being queued) leaving the controller idle, and later ticks
\* append nothing more.
C2_SingleMissionTakesFiftyTicks ==
    started.op = "start_mission" =>
        IF is_moving
        THEN /\ ticks \in 0..49
             /\ mission_progress = 2 * ticks
             /\ Len(mission_steps) = 9
             /\ current_mission = Mission(started.arg[1].robot_pos, started.arg[1].color)
             /\ Len(pick_history) = started.hist0
        ELSE /\ ticks = 50
             /\ mission_progress = 0
             /\ current_mission = None
             /\ Len(pick_history) = started.hist0 + 1

\* the mission has completed and a further tick has found the controller idle
C2_Witness ==
    /\ started.op = "start_mission"
    /\ ~is_moving
    /\ ticks = 50
    /\ last.kind = "tick"
    /\ ~last.moving
    /\ Len(pick_history) = started.hist0 + 1

\* C3: the missions of start_all_objects_batch run in non-decreasing color
\* priority Red < Green < Blue and are exactly the objects given, whatever the
\* order in which they were given.
C3_AllBatchRunsInColorPriority ==
    started.op = "start_all_objects_batch" =>
        /\ Len(Ran) = Len(started.arg)
        /\ Range(Ran) = Range(Given(started.arg))
        /\ \A i, j \in 1..Len(Ran) :
              i < j => color_order(Ran[i][2]) <= color_order(Ran[j][2])

\* Blue, Green, Red were given in this order and picked as Red, Green, Blue
C3_Witness ==
    /\ started.op = "start_all_objects_batch"
    /\ Len(started.arg) = 3
    /\ [i \in 1..3 |-> started.arg[i].color] = <<"Blue", "Green", "Red">>
    /\ ~is_moving
    /\ [i \in 1..3 |-> Completed[i].color] = <<"Red", "Green", "Blue">>

\* C4: a batch of n objects adds exactly 1 to batch_completions, at the
\* completion of its n-th mission and not before, and the batch-mode flag is
\* set until then and cleared from then on; a mission started by start_mission
\* adds nothing to batch_completions.
C4_BatchCompletionCountedOnce ==
    /\ started.op \in {"start_batch_pick", "start_all_objects_batch"} =>
          IF Done < Len(started.arg)
          THEN /\ is_moving
               /\ batch_mode
               /\ metrics.batch_completions = started.bc0
          ELSE /\ Done = Len(started.arg)
               /\ ~is_moving
               /\ ~batch_mode
               /\ metrics.batch_completions = started.bc0 + 1
    /\ started.op = "start_mission" =>
          /\ ~batch_mode
          /\ metrics.batch_completions = started.bc0

\* a batch of two has completed after an earlier batch of one
C4_Witness ==
    /\ started.op = "start_batch_pick"
    /\ Len(started.arg) = 2
    /\ started.bc0 = 1
    /\ Done = 2
    /\ metrics.batch_completions = 2
    /\ ~is_moving

\* C5: the batch queue is consumed first-in first-out: the missions completed,
\* the current mission and the queue are, in this order, the list given to
\* start_batch_pick; as long as missions of the list remain the controller keeps
\* executing, a dequeued mission starting at progress 0 with the plan of the
\* dequeued item; once the list is exhausted the controller is idle.
C5_BatchQueueIsFifo ==
    started.op = "start_batch_pick" =>
        /\ Ran = Given(started.arg)
        /\ IF Done < Len(started.arg)
           THEN /\ is_moving
                /\ mission_progress = 2 * ticks
                /\ mission_steps = calculate_pick_mission(started.arg[Done + 1].robot_pos,
                                                          started.arg[Done + 1].color)
           ELSE /\ ~is_moving
                /\ batch_queue = <<>>

\* the second object of a list of three has just been dequeued
C5_Witness ==
    /\ started.op = "start_batch_pick"
    /\ Len(started.arg) = 3
    /\ started.arg[1].color = "Blue"
    /\ Done = 1
    /\ is_moving
    /\ mission_progress = 0
    /\ Len(batch_queue) = 1

\* the detections of l within the tolerance radius of pixel position p
InRange(l, p) == {i \in 1..Len(l) : WithinRadius(Distance2(l[i].pixel_pos, p), tolerance_radius)}
\* of these the closest to p, the earliest in l among equally close ones
Nearest(l, p) ==
    CHOOSE i \in InRange(l, p) :
        \A j \in InRange(l, p) :
            \/ Distance2(l[i].pixel_pos, p) < Distance2(l[j].pixel_pos, p)
            \/ Distance2(l[i].pixel_pos, p) = Distance2(l[j].pixel_pos, p) /\ i <= j

\* C6: while an object is selected, update_selection on detections of which at
\* least one lies within tolerance_radius of the stored position rebinds the
\* selection to the closest of them, the earliest in detection order among
\* equally close ones, of whatever color: that detection is stored with its
\* identity, and it is returned.
C6_RebindsToNearestInRange ==
    (/\ last.kind = "update_selection"
     /\ last.prev[1] # None
     /\ InRange(last.arg, last.prev[1].pixel_pos) # {}) =>
        LET best == last.arg[Nearest(last.arg, last.prev[1].pixel_pos)]
        IN /\ selected_object = best
           /\ selection_id = best.id
           /\ last.ret = best

\* after a detection out of range come two detections of other colors at the
\* same distance on either side of the selected Red object: the selection
\* moved to the one listed first
C6_Witness ==
    /\ last.kind = "update_selection"
    /\ last.prev[1] = MkObj("Red", 100, 100)
    /\ Len(last.arg) = 3
    /\ last.arg[1] = MkObj("Red", 200, 100)
    /\ last.arg[2] = MkObj("Blue", 80, 100)
    /\ last.arg[3] = MkObj("Green", 120, 100)
    /\ tolerance_radius = InitialTolerance
    /\ selected_object = MkObj("Blue", 80, 100)

\* C7: while an object is selected, update_selection on detections none of
\* which lies within tolerance_radius (an empty list included) leaves the
\* stored object and identity as they were, the selector stays selected, and
\* nothing is returned.
C7_NoMatchKeepsSelection ==
    (/\ last.kind = "update_selection"
     /\ last.prev[1] # None
     /\ InRange(last.arg, last.prev[1].pixel_pos) = {}) =>
        /\ selected_object = last.prev[1]
        /\ selection_id = last.prev[2]
        /\ is_object_selected
        /\ last.ret = None

\* the only detection lies just outside the radius: distance 40, radius 35
C7_Witness ==
    /\ last.kind = "update_selection"
    /\ last.prev[1] = MkObj("Red", 100, 100)
    /\ last.arg = <<MkObj("Green", 124, 132)>>
    /\ tolerance_radius = 35
    /\ selected_object = MkObj("Red", 100, 100)

IsPrefix(s, t) == Len(s) <= Len(t) /\ s = SubSeq(t, 1, Len(s))

\* C8: when the space key starts a mission, the object whose position and color
\* become the mission target is one of the detections of the frame in which the
\* key is handled.
C8_PickedObjectIsInFrame ==
    (/\ last.kind = "key"
     /\ last.op = " "
     /\ ~last.moving
     /\ is_moving) =>
        \E i \in 1..Len(objects) :
            /\ objects[i].robot_pos = current_mission.object_pos
            /\ objects[i].color = current_mission.object_color

C10_PickKeysIgnoredWhileExecuting ==
    [][(is_moving /\ last'.kind = "key" /\ last'.op = "pick")
          => UNCHANGED <<mcvars, selvars>>]_vars

\* a pick key came while a batch was running and an object was selected
C10_Witness ==
    /\ last.kind = "key"
    /\ last.op = "pick"
    /\ batch_queue # <<>>
    /\ last.moving
    /\ is_moving
    /\ mission_progress > 0
    /\ is_object_selected

\* C11: a digit key naming a place beyond the end of the frame's object list is
\* ignored: selection (object and id), tolerance radius and the whole mission
\* controller stay as they were; a digit key naming a place within the list,
\* pressed while idle, selects exactly the object at that place, whatever was
\* selected before, and changes nothing else.
C11_DigitBeyondListIsIgnored ==
    [][(last'.kind = "key" /\ last'.op \in DigitKeys) =>
          LET i == DigitValue(last'.op)
              l == last'.arg
          IN /\ i > Len(l) => UNCHANGED <<selvars, mcvars>>
             /\ (i <= Len(l) /\ ~is_moving) =>
                   /\ selected_object' = l[i]
                   /\ selection_id' = l[i].id
                   /\ UNCHANGED <<tolerance_radius, mcvars>>]_vars

\* key 2 came with a single object in the frame, after the radius had been
\* changed and another object selected: the selection is still there
C11_Witness ==
    /\ last.kind = "key"
    /\ last.op = "2"
    /\ Len(last.arg) = 1
    /\ ~last.moving
    /\ selected_object # None
    /\ selected_object # last.arg[1]
    /\ last.prev = <<selected_object, selection_id>>
    /\ tolerance_radius # InitialTolerance

\* C12: the tolerance radius starts at 40 and is always between 10 and 100; the
\* + key adds 5 and the - key takes 5 away, except that + at 100 leaves 100 and
\* - at 10 leaves 10.
C12_ToleranceStaysInRange ==
    /\ tolerance_radius = InitialTolerance
    /\ [](tolerance_radius \in MinTolerance..MaxTolerance)
    /\ [][(last'.kind = "key" /\ last'.op = "+") =>
             tolerance_radius' = IF tolerance_radius = MaxTolerance THEN MaxTolerance
                                 ELSE tolerance_radius + ToleranceStep]_vars
    /\ [][(last'.kind = "key" /\ last'.op = "-") =>
             tolerance_radius' = IF tolerance_radius = MinTolerance THEN MinTolerance
                                 ELSE tolerance_radius - ToleranceStep]_vars

\* the + key found the radius at 100 while a mission was executing
C12_Witness ==
    /\ last.kind = "key"
    /\ last.op = "+"
    /\ last.arg = <<MaxTolerance>>
    /\ tolerance_radius = MaxTolerance
    /\ is_moving
    /\ mission_progress > 0

\* the last n entries of s
Recent(s, n) == IF Len(s) <= n THEN s ELSE SubSeq(s, Len(s) - n + 1, Len(s))

\* the middle value of an odd number of integers: at most half of the others
\* are below it and at most half above
MiddleOf(s) ==
    CHOOSE m \in Range(s) :
        /\ 2 * Cardinality({i \in 1..Len(s) : s[i] < m}) < Len(s)
        /\ 2 * Cardinality({i \in 1..Len(s) : s[i] > m}) < Len(s)

\* C13: update for one identity keeps the 5 most recent positions given for it
\* and never more; while fewer than 5 are held it returns the position given;
\* once 5 are held it returns their coordinate-wise median, so 5 equal
\* positions return that position and 4 equal positions with one other return
\* the position of the 4.
C13_MedianOnceFull ==
    [][last'.kind = "update" =>
          LET obj_id == last'.arg[1]
              position == last'.arg[2]
              before == IF obj_id \in DOMAIN position_buffers
                        THEN position_buffers[obj_id] ELSE <<>>
              held == Recent(Append(before, position), BufferSize)
          IN /\ position_buffers'[obj_id] = held
             /\ Len(position_buffers'[obj_id]) <= BufferSize
             /\ Len(held) < BufferSize => last'.ret = position
             /\ Len(held) = BufferSize =>
                   /\ last'.ret = << MiddleOf([i \in 1..BufferSize |-> held[i][1]]),
                                     MiddleOf([i \in 1..BufferSize |-> held[i][2]]) >>
                   /\ \A p \in Range(held) :
                         Cardinality({i \in 1..BufferSize : held[i] = p}) >= BufferSize - 1
                            => last'.ret = p]_vars

\* the fifth position held is an outlier given last: the position of the
\* other four came back
C13_Witness ==
    /\ last.kind = "update"
    /\ Len(position_buffers[last.arg[1]]) = BufferSize
    /\ last.ret # last.arg[2]
    /\ \A i \in 1..(BufferSize - 1) : position_buffers[last.arg[1]][i] = last.ret

\* C14: cleanup leaves exactly the buffers of the identities given, each as it
\* was, and none when given no identity; an update for an identity without a
\* buffer starts one holding the position given alone and returns that
\* position; after process_frame the identities with a buffer are those
\* detected in the frame, so an identity missing from one frame has no buffer.
C14_CleanupDropsAbsentIdentities ==
    [][/\ last'.kind = "cleanup" =>
             /\ DOMAIN position_buffers' = DOMAIN position_buffers \cap last'.arg[1]
             /\ \A k \in DOMAIN position_buffers' :
                   position_buffers'[k] = position_buffers[k]
             /\ last'.arg[1] = {} => DOMAIN position_buffers' = {}
       /\ (last'.kind = "update" /\ last'.arg[1] \notin DOMAIN position_buffers) =>
             /\ position_buffers'[last'.arg[1]] = <<last'.arg[2]>>
             /\ last'.ret = last'.arg[2]
       /\ last'.kind = "frame" =>
             DOMAIN position_buffers' = {last'.arg[1][i].id : i \in 1..Len(last'.arg[1])}
      ]_vars

\* of two identities with buffers, cleanup was given the one with a full
\* buffer: that buffer alone is left
C14_Witness ==
    /\ last.kind = "cleanup"
    /\ Cardinality(last.arg[2]) = 2
    /\ Cardinality(last.arg[1]) = 1
    /\ DOMAIN position_buffers = last.arg[1]
    /\ \A k \in DOMAIN position_buffers : Len(position_buffers[k]) = BufferSize

\* a tick that takes the progress of the current mission to 100
CompletingTick ==
    /\ last'.kind = "tick"
    /\ is_moving
    /\ current_mission # None
    /\ mission_progress + ProgressIncrement >= ProgressDone

\* C15: total_picks, successful_picks and batch_completions never go down and
\* change only in a tick that completes a mission: start operations, keys,
\* selection updates, ticks short of 100 and ticks while idle leave all three
\* as they were; a completing tick adds exactly 1 to total_picks and to
\* successful_picks.
C15_CountersChangeOnCompletionOnly ==
    [][/\ metrics'.total_picks >= metrics.total_picks
       /\ metrics'.successful_picks >= metrics.successful_picks
       /\ metrics'.batch_completions >= metrics.batch_completions
       /\ ~CompletingTick =>
             /\ metrics'.total_picks = metrics.total_picks
             /\ metrics'.successful_picks = metrics.successful_picks
             /\ metrics'.batch_completions = metrics.batch_completions
       /\ CompletingTick =>
             /\ metrics'.total_picks = metrics.total_picks + 1
             /\ metrics'.successful_picks = metrics.successful_picks + 1]_vars

\* the fiftieth tick of a mission started by the space key has been counted
C15_Witness ==
    /\ last.kind = "tick"
    /\ last.moving
    /\ ~is_moving
    /\ 2 * ticks = ProgressDone
    /\ started.op = "other"
    /\ metrics.total_picks = 1
    /\ metrics.successful_picks = 1
    /\ metrics.batch_completions = 0

\* C16: the history only grows, by one entry at its end at a time, and the
\* entries it holds never change; the entry added when a mission completes has
\* the mission's color and object position, the drop location of that color
\* and success set.
C16_HistoryIsAppendOnly ==
    [][\/ pick_history' = pick_history
       \/ /\ CompletingTick
          /\ pick_history' =
                Append(pick_history,
                       [color |-> current_mission.object_color,
                        position |-> current_mission.object_pos,
                        drop_location |-> drop_locations[current_mission.object_color],
                        success |-> TRUE])]_vars

\* the second entry was added under a first one of another color, in a batch
\* that goes on
C16_Witness ==
    /\ last.kind = "tick"
    /\ Len(pick_history) = 2
    /\ pick_history[1].color # pick_history[2].color
    /\ pick_history[2].drop_location = drop_locations[pick_history[2].color]
    /\ is_moving
    /\ mission_progress = 0

\* C17: a mission that is executing stays the current mission, with its target
\* position and color, its progress never going down and the controller
\* moving, whatever operation or key comes, until the tick that completes it
\* adds its entry to the history.
C17_MissionRunsToCompletion ==
    [][(is_moving /\ current_mission # None) =>
          \/ /\ is_moving'
             /\ current_mission' = current_mission
             /\ mission_progress' >= mission_progress
             /\ pick_history' = pick_history
          \/ /\ CompletingTick
             /\ Len(pick_history') = Len(pick_history) + 1
             /\ pick_history'[Len(pick_history')].position = current_mission.object_pos
             /\ pick_history'[Len(pick_history')].color = current_mission.object_color]_vars

\* start_mission was called in the middle of a mission that had already been
\* through keys and ticks, and the mission went on
C17_Witness ==
    /\ last.kind = "start"
    /\ last.moving
    /\ is_moving
    /\ ~batch_mode
    /\ mission_progress = ProgressDone - ProgressIncrement
    /\ tolerance_radius # InitialTolerance

\* the other orderings of the objects of l
Orderings(l) == {m \in McLists : Len(m) = Len(l) /\ Range(m) = Range(l)}
ColorsOf(run) == [i \in 1..Len(run) |-> run[i][2]]
OfColor(run, c) == SelectSeq(run, LAMBDA t : t[2] = c)

\* C18 as claimed: the missions of start_all_objects_batch are those it would
\* run, in the same order, had the same objects been given in any other order.
C18_OrderIndependentOfGivenOrder ==
    started.op = "start_all_objects_batch" =>
        \A m \in Orderings(started.arg) : Ran = Given(sorted_objects(m))

\* C18 as amended: the colors of the missions of start_all_objects_batch, in
\* order, are those it would run had the same objects been given in any other
\* order; objects of one color are picked in the order given, so the missions
\* themselves are the same for every order only when no two objects share a
\* color.
C18_ColorOrderIndependentOfGivenOrder ==
    started.op = "start_all_objects_batch" =>
        /\ \A m \in Orderings(started.arg) :
              /\ ColorsOf(Ran) = ColorsOf(Given(sorted_objects(m)))
              /\ (\A i, j \in 1..Len(m) : i # j => m[i].color # m[j].color)
                    => Ran = Given(sorted_objects(m))
        /\ \A c \in Colors : OfColor(Ran, c) = OfColor(Given(started.arg), c)

\* two Red objects were given with a Green one between them: the Red ones
\* are picked first, in the order given, the one farther right first
C18_Witness ==
    /\ started.op = "start_all_objects_batch"
    /\ started.arg = <<MkObj("Red", 200, 100), MkObj("Green", 120, 100),
                       MkObj("Red", 100, 100)>>
    /\ Ran = Given(<<MkObj("Red", 200, 100), MkObj("Red", 100, 100),
                     MkObj("Green", 120, 100)>>)
    /\ Done = 1
    /\ is_moving

\* the (position, color) pairs of the objects of l whose color is c, in order
GivenOfColor(l, c) == OfColor(Given(l), c)

\* C19: called while idle, start_color_batch_pick runs exactly the objects of
\* the color asked for, in the order given: every mission has that color and
\* there are as many missions as objects of that color, the controller moving
\* in batch mode until the last of them completes; when no object has that
\* color the call changes nothing of the controller, which stays idle.
C19_ColorBatchRunsThatColorOnly ==
    /\ [](started.op = "start_color_batch_pick" =>
             LET wanted == GivenOfColor(started.arg[1], started.arg[2])
             IN /\ Ran = wanted
                /\ \A i \in 1..Len(Ran) : Ran[i][2] = started.arg[2]
                /\ Done < Len(wanted) => (is_moving /\ batch_mode)
                /\ Done = Len(wanted) => ~is_moving)
    /\ [][(/\ last'.kind = "start"
           /\ last'.op = "start_color_batch_pick"
           /\ GivenOfColor(last'.arg[1], last'.arg[2]) = <<>>)
             => (UNCHANGED mcvars /\ ~is_moving')]_vars

\* of Red, Green, Red given in this order the two Red objects are run, the
\* first given first
C19_Witness ==
    /\ started.op = "start_color_batch_pick"
    /\ started.arg = << <<MkObj("Red", 200, 100), MkObj("Green", 120, 100),
                          MkObj("Red", 100, 100)>>, "Red" >>
    /\ Ran = Given(<<MkObj("Red", 200, 100), MkObj("Red", 100, 100)>>)
    /\ Done = 1
    /\ is_moving
    /\ batch_queue = <<>>

\* C20: while a mission executes, whether started directly or dequeued from a
\* batch, the stored plan is the plan of that mission: 9 steps, approach above
\* the object, descend to it, close the gripper, lift, move above the drop zone
\* of the mission's color, descend to it, open the gripper, lift from the drop
\* zone, move to the home position, which is the same for every mission.
C20_PlanIsNineStepTemplate ==
    (is_moving /\ current_mission # None) =>
        LET p == current_mission.object_pos
            d == drop_locations[current_mission.object_color]
            s == mission_steps
        IN /\ Len(s) = 9
           /\ [i \in 1..9 |-> s[i].type] =
                 <<"move", "move", "gripper", "move", "move", "move", "gripper",
                   "move", "move">>
           /\ s[1].target = <<p[1], p[2], p[3] + 50>>
           /\ s[2].target = p
           /\ s[3].action = "close"
           /\ s[4].target = <<p[1], p[2], p[3] + 80>>
           /\ s[5].target = <<d[1], d[2], p[3] + 80>>
           /\ s[6].target = d
           /\ s[7].action = "open"
           /\ s[8].target = <<d[1], d[2], d[3] + 80>>
           /\ s[9].target = <<300, 200, 100>>

\* a Blue object is on its way after a Red one of the same batch was placed
C20_Witness ==
    /\ is_moving
    /\ batch_mode
    /\ Len(pick_history) = 1
    /\ pick_history[1].color = "Red"
    /\ current_mission.object_color = "Blue"
    /\ mission_steps[6].target = <<500, 350, 50>>
    /\ mission_progress > 0

\* the place, counted from 0, of the current step in the plan
StepIndex == (CHOOSE i \in 1..Len(mission_steps) : mission_steps[i] = get_current_step) - 1

\* floor(progress / (100 / 9)), and 8 at most
NinthsOf(progress) ==
    CHOOSE k \in 0..8 :
        /\ k * 100 <= 9 * progress
        /\ k = 8 \/ (k + 1) * 100 > 9 * progress

\* C21: while a mission executes the current step is the step of the plan at
\* index floor(progress / (100 / 9)), 8 at most, and while idle there is none;
\* the index is 0 when a mission begins, also the next mission of a batch, 8
\* at the last tick before completion, and from one tick to the next within a
\* mission it stays or goes up by one.
C21_CurrentStepFollowsProgress ==
    /\ [](IF is_moving
          THEN /\ get_current_step = mission_steps[NinthsOf(mission_progress) + 1]
               /\ mission_progress = 0 => StepIndex = 0
               /\ mission_progress = ProgressDone - ProgressIncrement => StepIndex = 8
          ELSE get_current_step = None)
    /\ [][(is_moving /\ is_moving' /\ last'.kind = "tick") =>
             IF Len(pick_history') = Len(pick_history)
             THEN StepIndex' \in {StepIndex, StepIndex + 1}
             ELSE StepIndex' = 0]_vars

\* the second mission of a batch has just gone from its first step to its
\* second
C21_Witness ==
    /\ is_moving
    /\ batch_mode
    /\ Len(pick_history) = 1
    /\ last.kind = "tick"
    /\ mission_progress = 12
    /\ StepIndex = 1
    /\ get_current_step.description = "Lower to object"

\* C22: a contour is rejected exactly when its area is below min_area or its
\* solidity is 0.7 or less, a hull of area 0 giving solidity 0; every other
\* contour, one of area min_area with solidity over 0.7 among them, yields one
\* detected object.
C22_RejectedExactlyBelowMinArea ==
    last.kind = "detect" =>
        LET rejected(cnt) ==
                \/ cnt.area < MinArea
                \/ cnt.hull_area = 0
                \/ 10 * cnt.area <= 7 * cnt.hull_area
            kept(c) == SelectSeq(last.arg, LAMBDA cnt : cnt.color = c /\ ~rejected(cnt))
            yielded(c) == [i \in 1..Len(kept(c)) |->
                              MkObj(c, kept(c)[i].center[1], kept(c)[i].center[2])]
        IN objects = yielded("Red") \o yielded("Green") \o yielded("Blue")

\* C23: once a mission or batch is started, the target position and color of
\* the current mission and of every queued object stay what they were at the
\* start: frames, stabilization, selection updates and keys change neither,
\* and a completing tick either ends the work or makes the head of the queue,
\* as queued, the current mission and leaves the rest of the queue as it was.
C23_TargetsFixedOnceStarted ==
    [][is_moving =>
          \/ /\ current_mission' = current_mission
             /\ batch_queue' = batch_queue
          \/ /\ CompletingTick
             /\ IF batch_queue = <<>>
                THEN ~is_moving' /\ batch_queue' = <<>>
                ELSE /\ current_mission' = Mission(Head(batch_queue).robot_pos,
                                                   Head(batch_queue).color)
                     /\ batch_queue' = Tail(batch_queue)]_vars

\* the Green object queued behind a Red one became the current mission in an
\* iteration whose frame shows the Red object alone
C23_Witness ==
    /\ last.kind = "tick"
    /\ is_moving
    /\ batch_mode
    /\ Len(pick_history) = 1
    /\ current_mission.object_color = "Green"
    /\ mission_progress = 0
    /\ objects = <<MkObj("Red", 100, 100)>>

\* C24: the controller is moving exactly when it has a current mission; idle,
\* its queue is empty, its batch-mode flag cleared and its progress 0; with
\* objects queued it is moving in batch mode; and the progress is always an
\* even number from 0 to 98.
C24_ControllerStateIsConsistent ==
    /\ is_moving <=> current_mission # None
    /\ ~is_moving => (batch_queue = <<>> /\ ~batch_mode /\ mission_progress = 0)
    /\ batch_queue # <<>> => (is_moving /\ batch_mode)
    /\ mission_progress \in 0..98
    /\ mission_progress % 2 = 0

\* a batch start was called on a batch one tick from completing its first
\* mission, another object still queued
C24_Witness ==
    /\ last.kind = "start"
    /\ last.moving
    /\ is_moving
    /\ batch_mode
    /\ Len(batch_queue) = 1
    /\ mission_progress = 98
    /\ current_mission.object_color # batch_queue[1].color

\* C25: a mission, or a batch of n objects, started from idle always comes to
\* an end if ticks keep coming: each of its missions completes at its 50th
\* tick, so after 50 * n ticks the controller is idle with n more history
\* entries, and after each earlier completion the queue is one shorter.
C25_StartedWorkFinishes ==
    /\ [](started.op \in {"start_mission", "start_batch_pick"} =>
             LET n == Len(started.arg)
             IN IF is_moving
                THEN /\ Done < n
                     /\ Len(batch_queue) = n - Done - 1
                     /\ mission_progress = ProgressIncrement * ticks
                     /\ ProgressIncrement * ticks < ProgressDone
                ELSE /\ Done = n
                     /\ ProgressIncrement * ticks = ProgressDone)
    /\ (is_moving ~> ~is_moving)

\* a batch of two has come to its end at the 50th tick of its second mission
C25_Witness ==
    /\ started.op = "start_batch_pick"
    /\ Len(started.arg) = 2
    /\ last.kind = "tick"
    /\ last.moving
    /\ ~is_moving
    /\ Done = 2
    /\ ProgressIncrement * ticks = ProgressDone

\* C26: in the run loop, a controller that is moving when an iteration ends has
\* no object selected (nor at any other point of the loop), no key selects one
\* while it is moving, and when the tick that completes a mission or batch
\* leaves it idle, no object is selected.
C26_NoSelectionWhileExecuting ==
    /\ [](is_moving => (selected_object = None /\ selection_id = None))
    /\ []((last.kind = "tick" /\ last.moving /\ ~is_moving) =>
             (selected_object = None /\ selection_id = None))
    /\ [][(is_moving /\ last'.kind = "key") =>
             (selected_object' = None /\ selection_id' = None)]_vars

\* the space key found an object selected and started its mission: the
\* iteration ended moving with nothing selected
C26_Witness ==
    /\ pc = "read"
    /\ last.kind = "key"
    /\ last.op = " "
    /\ ~last.moving
    /\ last.prev[1] # None
    /\ is_moving
    /\ mission_progress = 0
    /\ selected_object = None

\* C27: through process_frame every position held under an identity is the
\* center the identity is built from, so every object comes out of the
\* stabilizer with the pixel position it went in with, full buffer or not,
\* and an object seen one pixel away has another identity, whose buffer
\* starts with that frame.
C27_StabilizedEqualsRawInPipeline ==
    [][last'.kind = "frame" =>
          LET l == last'.arg[1]
          IN /\ objects' = l
             /\ \A k \in DOMAIN position_buffers' :
                   \A i \in 1..Len(position_buffers'[k]) :
                      position_buffers'[k][i] = <<k[2], k[3]>>
             /\ \A i \in 1..Len(l) :
                   l[i].id \notin DOMAIN position_buffers
                      => Len(position_buffers'[l[i].id]) = 1]_vars

\* the Red object moved one pixel while the Green one, its buffer full, stayed:
\* both came out where they went in, the Red one under a new identity
C27_Witness ==
    /\ last.kind = "frame"
    /\ last.arg[2] = {MkObj("Red", 100, 100).id, MkObj("Green", 120, 100).id}
    /\ objects = <<MkObj("Red", 101, 100), MkObj("Green", 120, 100)>>
    /\ DOMAIN position_buffers = {MkObj("Red", 101, 100).id, MkObj("Green", 120, 100).id}
    /\ Len(position_buffers[MkObj("Red", 101, 100).id]) = 1
    /\ Len(position_buffers[MkObj("Green", 120, 100).id]) = BufferSize

\* C28: after a pick key handled while idle nothing is selected: the space
\* key starts a mission on the selected object and clears the selection, and
\* changes nothing when nothing is selected; the f key and the color keys
\* clear the selection even when the frame holds no object (of that color)
\* and no mission starts.
C28_PickKeyWhileIdleUnselects ==
    [][(last'.kind = "key" /\ last'.op \in PickKeys /\ ~is_moving) =>
          /\ selected_object' = None
          /\ selection_id' = None
          /\ (last'.op = " " /\ selected_object # None) =>
                /\ is_moving'
                /\ current_mission' = Mission(selected_object.robot_pos,
                                              selected_object.color)
          /\ (last'.op = " " /\ selected_object = None) => UNCHANGED mcvars]_vars

\* the b key came with two objects in the frame, neither Blue, and one of them
\* selected: no mission started and nothing is selected
C28_Witness ==
    /\ last.kind = "key"
    /\ last.op = "b"
    /\ last.arg = <<2>>
    /\ ~last.moving
    /\ last.prev[1] # None
    /\ ~is_moving
    /\ pick_history = <<>>
    /\ selected_object = None
    /\ selection_id = None

\* C29: total_picks, successful_picks and the number of history entries are
\* always equal, failed_picks is 0, every entry is a success and
\* batch_completions is at most total_picks; the success rate reported is 0
\* before the first completion and 100 from then on.
C29_EveryPickIsCountedSuccessful ==
    /\ metrics.total_picks = Len(pick_history)
    /\ metrics.successful_picks = Len(pick_history)
    /\ metrics.failed_picks = 0
    /\ \A i \in 1..Len(pick_history) : pick_history[i].success
    /\ metrics.batch_completions <= metrics.total_picks
    /\ get_performance_metrics.total_missions = metrics.total_picks
    /\ get_performance_metrics.success_rate = IF pick_history = <<>> THEN 0 ELSE 100

\* a batch of two and a single mission are done: three picks, one batch
C29_Witness ==
    /\ ~is_moving
    /\ Len(pick_history) = 3
    /\ metrics.total_picks = 3
    /\ metrics.batch_completions = 1
    /\ get_performance_metrics.success_rate = 100

====
